---- MODULE Spec2Model ----
(***************************************************************************)
(* State-machine model of the SIH Mental Health Support API (src/main.py): *)
(* the relational store declared by the SQLAlchemy models, the credential  *)
(* hasher, and one action per FastAPI route.  create_user is the only      *)
(* handler that talks to the store twice (SELECT pre-check, then INSERT at *)
(* commit), so it is modelled as two steps per worker; every other handler *)
(* issues one statement and is one step.                                   *)
(***************************************************************************)
EXTENDS Integers, Sequences, FiniteSets, TLC

VARIABLES users, posts, comments, mood_entries, chat_sessions, resources,
          seq, now, pc, preq, resp

vars == <<users, posts, comments, mood_entries, chat_sessions, resources,
          seq, now, pc, preq, resp>>

store == <<users, posts, comments, mood_entries, chat_sessions, resources>>

----------------------------------------------------------------------------
(* Bounds of the model *)

MaxUsers == 2
MaxPosts == 2
MaxComments == 2
MaxMoods == 1
MaxChats == 1
MaxResources == 3
MaxRows == 3
MaxClock == 1

(* The request workers *)
Workers == {1, 2}

(* bcrypt reads at most this many bytes of the secret *)
BcryptMaxBytes == 72

NULL == "NULL"

Usernames == {"alice", "bob"}
Emails == {"a@x.org", "b@x.org"}

(* A request may name any id the sequence can assign, and one beyond. *)
UserIds == 1..(MaxUsers + 1)
PostIds == 1..(MaxPosts + 1)

MoodScores == {0, 1, 10, 11}

(* Passwords are byte strings over {1, 2}. *)
Fill(n, b) == [i \in 1..n |-> b]

ShortPasswords == {<<1>>}

LongPasswords ==
    { <<1>>, <<2>>, <<1, 2>>,
      Fill(BcryptMaxBytes - 1, 1) \o <<1>>, Fill(BcryptMaxBytes - 1, 1) \o <<2>>,
      Fill(BcryptMaxBytes, 1) \o <<1>>, Fill(BcryptMaxBytes, 1) \o <<2>> }

OneSalt == {7}
TwoSalts == {7, 8}

Min(a, b) == IF a <= b THEN a ELSE b

Perms(S) ==
    { f \in [1..Cardinality(S) -> S] : \A x \in S : \E i \in DOMAIN f : f[i] = x }

----------------------------------------------------------------------------
(* Password utilities *)

Truncate(secret) == SubSeq(secret, 1, Min(Len(secret), BcryptMaxBytes))

BcryptIdent == 0

(* pwd_context.hash: identifier, salt, digest of the salted truncated secret.
   The digest is kept symbolic (collision-free). *)
BcryptHash(secret, salt) == <<BcryptIdent, salt>> \o Truncate(secret)

(* The password kept as it came *)
StorePlaintext(password, salt) == password

get_password_hash(password, salt) == BcryptHash(password, salt)

(* pwd_context.verify: recompute with the salt embedded in the hash. *)
verify_password(plain_password, hashed_password) ==
    /\ Len(hashed_password) >= 2
    /\ hashed_password[1] = BcryptIdent
    /\ BcryptHash(plain_password, hashed_password[2]) = hashed_password

----------------------------------------------------------------------------
(* Responses *)

NoResp == [ep |-> "none", req |-> [none |-> TRUE], status |-> 0,
           body |-> [none |-> TRUE]]

Response(ep, req, status, body) ==
    [ep |-> ep, req |-> req, status |-> status, body |-> body]

HTTPException(ep, req, status, detail) ==
    Response(ep, req, status, [detail |-> detail])

(* An exception no handler catches: FastAPI answers 500. *)
UnhandledError(ep, req) ==
    Response(ep, req, 500, [detail |-> "Internal Server Error"])

----------------------------------------------------------------------------
(* Store constraints of the users table *)

UsernameTaken(us, name) == \E u \in us : u.username = name
EmailTaken(us, email) == \E u \in us : u.email = email

(* unique=True on username and on email *)
UserUniqueViolation(us, row) ==
    UsernameTaken(us, row.username) \/ EmailTaken(us, row.email)

UserRow(id, user, hashed_password, created_at) ==
    [id |-> id, username |-> user.username, email |-> user.email,
     password_hash |-> hashed_password, created_at |-> created_at]

(* The whole row serialized *)
UserResponseWithHash(row) == row

UserResponse(row) ==
    [id |-> row.id, username |-> row.username, email |-> row.email,
     created_at |-> row.created_at]

----------------------------------------------------------------------------
Init ==
    /\ users = {}
    /\ posts = {}
    /\ comments = {}
    /\ mood_entries = {}
    /\ chat_sessions = {}
    /\ resources = {}
    /\ seq = [users |-> 0, posts |-> 0, comments |-> 0, moods |-> 0,
              chats |-> 0, resources |-> 0]
    /\ now = 0
    /\ pc = [p \in Workers |-> "idle"]
    /\ preq = [p \in Workers |-> NoResp.req]
    /\ resp = NoResp

(* The wall clock advances. *)
Tick ==
    /\ now < MaxClock
    /\ now' = now + 1
    /\ UNCHANGED <<store, seq, pc, preq, resp>>

----------------------------------------------------------------------------
(* POST /users/ *)

InFlight == Cardinality({q \in Workers : pc[q] = "checked"})

(* A pre-check that wants both columns to match *)
UserExistsBoth(us, user) ==
    \E u \in us : u.email = user.email /\ u.username = user.username

(* The pre-check query of create_user. *)
UserExists(us, user) ==
    \E u \in us : u.email = user.email \/ u.username = user.username

(* What the pre-check answers: a hit raises HTTPException(400). *)
CreateUserCheckResult(us, user) ==
    IF UserExists(us, user)
    THEN [ok |-> FALSE,
          resp |-> HTTPException("create_user", user, 400,
                                 "Email or username already registered")]
    ELSE [ok |-> TRUE, resp |-> NoResp]

(* Hash, add, commit, refresh, return.  The INSERT is checked against the
   unique constraints; IntegrityError is not caught. *)
CreateUserCommitResult(us, id, user, salt, txstart) ==
    LET db_user == UserRow(id, user, get_password_hash(user.password, salt),
                           txstart)
    IN IF UserUniqueViolation(us, db_user)
       THEN [ok |-> FALSE, row |-> db_user,
             resp |-> UnhandledError("create_user", user)]
       ELSE [ok |-> TRUE, row |-> db_user,
             resp |-> Response("create_user", user, 201, UserResponse(db_user))]

(* First half of the handler: the SELECT, which opens the transaction. *)
CreateUserCheck(p, user) ==
    /\ pc[p] = "idle"
    /\ seq.users + InFlight < MaxUsers
    /\ LET r == CreateUserCheckResult(users, user)
       IN IF r.ok
          THEN /\ pc' = [pc EXCEPT ![p] = "checked"]
               /\ preq' = [preq EXCEPT ![p] = [user |-> user, txstart |-> now]]
               /\ UNCHANGED resp
          ELSE /\ resp' = r.resp
               /\ UNCHANGED <<pc, preq>>
    /\ UNCHANGED <<store, seq, now>>

(* Second half: the INSERT and COMMIT. *)
CreateUserCommit(p, salt) ==
    /\ pc[p] = "checked"
    /\ LET r == CreateUserCommitResult(users, seq.users + 1, preq[p].user,
                                       salt, preq[p].txstart)
       IN /\ resp' = r.resp
          /\ IF r.ok
             THEN /\ users' = users \cup {r.row}
                  /\ seq' = [seq EXCEPT !.users = @ + 1]
             ELSE UNCHANGED <<users, seq>>
    /\ pc' = [pc EXCEPT ![p] = "idle"]
    /\ preq' = [preq EXCEPT ![p] = NoResp.req]
    /\ UNCHANGED <<posts, comments, mood_entries, chat_sessions, resources, now>>

UserCreates(Pw) ==
    [username : Usernames, email : Emails, password : Pw]

(* No registration is between its pre-check and its commit. *)
Serial == \A q \in Workers : pc[q] = "idle"

----------------------------------------------------------------------------
(* Foreign keys *)

RowExists(rows, id) == \E r \in rows : r.id = id

(* posts.user_id -> users.id *)
PostFKViolation(us, row) == ~RowExists(us, row.user_id)

(* Only the author is checked *)
CommentFKUserOnly(us, ps, row) == ~RowExists(us, row.user_id)

(* comments.post_id -> posts.id, comments.user_id -> users.id *)
CommentFKViolation(us, ps, row) ==
    ~RowExists(ps, row.post_id) \/ ~RowExists(us, row.user_id)

(* mood_entries.user_id -> users.id *)
MoodFKViolation(us, row) == ~RowExists(us, row.user_id)

(* chat_sessions.user_id -> users.id *)
ChatFKViolation(us, row) == ~RowExists(us, row.user_id)

(* ondelete="CASCADE": what is left of each table once user uid is deleted *)
PostsAfterDelete(ps, uid) == { r \in ps : r.user_id # uid }

(* Only the comments the user wrote go *)
CommentsAfterDeleteByAuthor(cs, ps, uid) == { c \in cs : c.user_id # uid }

CommentsAfterDelete(cs, ps, uid) ==
    { c \in cs : /\ c.user_id # uid
                 /\ \E r \in PostsAfterDelete(ps, uid) : r.id = c.post_id }

MoodsAfterDelete(ms, uid) == { m \in ms : m.user_id # uid }

ChatsAfterDelete(chs, uid) == { s \in chs : s.user_id # uid }

----------------------------------------------------------------------------
(* POST /posts/ and GET /posts/ *)

PostCreates == [title : {"t"}, content : {"c"}, user_id : UserIds]

PostBase(row) == [title |-> row.title, content |-> row.content]

CreatePostResult(us, id, t, post) ==
    LET db_post == [id |-> id, user_id |-> post.user_id, title |-> post.title,
                    content |-> post.content, created_at |-> t, updated_at |-> t]
    IN IF PostFKViolation(us, db_post)
       THEN [ok |-> FALSE, row |-> db_post,
             resp |-> UnhandledError("create_post", post)]
       ELSE [ok |-> TRUE, row |-> db_post,
             resp |-> Response("create_post", post, 201, PostBase(db_post))]

create_post(post) ==
    /\ LET r == CreatePostResult(users, seq.posts + 1, now, post)
       IN /\ resp' = r.resp
          /\ IF r.ok
             THEN /\ posts' = posts \cup {r.row}
                  /\ seq' = [seq EXCEPT !.posts = @ + 1]
             ELSE UNCHANGED <<posts, seq>>
    /\ UNCHANGED <<users, comments, mood_entries, chat_sessions, resources,
                   now, pc, preq>>

CommentResponse(c) ==
    [post_id |-> c.post_id, user_id |-> c.user_id, content |-> c.content,
     id |-> c.id, created_at |-> c.created_at]

PostResponse(row, cseq) ==
    [user_id |-> row.user_id, title |-> row.title, content |-> row.content,
     id |-> row.id, created_at |-> row.created_at,
     updated_at |-> row.updated_at,
     comments |-> [i \in DOMAIN cseq |-> CommentResponse(cseq[i])]]

CommentsOf(cs, post_id) == { c \in cs : c.post_id = post_id }

(* ORDER BY created_at DESC: rows with equal created_at come in any order. *)
PostOrders(ps) ==
    { o \in Perms(ps) :
        \A i, j \in DOMAIN o : i < j => o[i].created_at >= o[j].created_at }

(* Post.comments is loaded by a SELECT ... WHERE post_id = :id that names no
   ORDER BY: the store returns the rows in any order. *)
CommentLoads(ps, cs) ==
    { f \in [ps -> UNION { Perms(T) : T \in SUBSET cs }] :
        \A r \in ps : f[r] \in Perms(CommentsOf(cs, r.id)) }

ListPostsBodies(ps, cs) ==
    { [items |-> [i \in DOMAIN o |-> PostResponse(o[i], f[o[i]])]] :
        o \in PostOrders(ps), f \in CommentLoads(ps, cs) }

list_posts ==
    /\ \E body \in ListPostsBodies(posts, comments) :
          resp' = Response("list_posts", [none |-> TRUE], 200, body)
    /\ UNCHANGED <<store, seq, now, pc, preq>>

----------------------------------------------------------------------------
(* POST /comments/ *)

CommentCreates == [post_id : PostIds, user_id : UserIds, content : {"c"}]

CreateCommentResult(us, ps, id, t, comment) ==
    LET db_comment == [id |-> id, post_id |-> comment.post_id,
                       user_id |-> comment.user_id,
                       content |-> comment.content, created_at |-> t]
    IN IF CommentFKViolation(us, ps, db_comment)
       THEN [ok |-> FALSE, row |-> db_comment,
             resp |-> UnhandledError("create_comment", comment)]
       ELSE [ok |-> TRUE, row |-> db_comment,
             resp |-> Response("create_comment", comment, 201,
                               CommentResponse(db_comment))]

create_comment(comment) ==
    /\ LET r == CreateCommentResult(users, posts, seq.comments + 1, now, comment)
       IN /\ resp' = r.resp
          /\ IF r.ok
             THEN /\ comments' = comments \cup {r.row}
                  /\ seq' = [seq EXCEPT !.comments = @ + 1]
             ELSE UNCHANGED <<comments, seq>>
    /\ UNCHANGED <<users, posts, mood_entries, chat_sessions, resources,
                   now, pc, preq>>

----------------------------------------------------------------------------
(* POST /moods/ and GET /moods/{user_id} *)

MoodEntryCreates == [user_id : UserIds, mood_score : MoodScores, notes : {NULL}]

(* The lower end off by one *)
MoodScoreFromZero(mood_score) == 0 <= mood_score /\ mood_score <= 10

MoodScoreInRange(mood_score) == 1 <= mood_score /\ mood_score <= 10

MoodEntryResponse(m) ==
    [user_id |-> m.user_id, mood_score |-> m.mood_score, notes |-> m.notes,
     id |-> m.id, entry_date |-> m.entry_date]

LogMoodResult(us, id, t, mood) ==
    LET db_mood == [id |-> id, user_id |-> mood.user_id,
                    mood_score |-> mood.mood_score, notes |-> mood.notes,
                    entry_date |-> t]
    IN IF ~MoodScoreInRange(mood.mood_score)
       THEN [ok |-> FALSE, row |-> db_mood,
             resp |-> HTTPException("log_mood", mood, 400,
                                    "Mood score must be between 1 and 10.")]
       ELSE IF MoodFKViolation(us, db_mood)
       THEN [ok |-> FALSE, row |-> db_mood,
             resp |-> UnhandledError("log_mood", mood)]
       ELSE [ok |-> TRUE, row |-> db_mood,
             resp |-> Response("log_mood", mood, 201,
                               MoodEntryResponse(db_mood))]

log_mood(mood) ==
    /\ LET r == LogMoodResult(users, seq.moods + 1, now, mood)
       IN /\ resp' = r.resp
          /\ IF r.ok
             THEN /\ mood_entries' = mood_entries \cup {r.row}
                  /\ seq' = [seq EXCEPT !.moods = @ + 1]
             ELSE UNCHANGED <<mood_entries, seq>>
    /\ UNCHANGED <<users, posts, comments, chat_sessions, resources,
                   now, pc, preq>>

(* filter(user_id == :id), ORDER BY entry_date DESC *)
MoodHistoryBodies(ms, user_id) ==
    { [items |-> [i \in DOMAIN o |-> MoodEntryResponse(o[i])]] :
        o \in { q \in Perms({ m \in ms : m.user_id = user_id }) :
                  \A i, j \in DOMAIN q :
                     i < j => q[i].entry_date >= q[j].entry_date } }

get_mood_history(user_id) ==
    /\ \E body \in MoodHistoryBodies(mood_entries, user_id) :
          resp' = Response("get_mood_history", [user_id |-> user_id], 200, body)
    /\ UNCHANGED <<store, seq, now, pc, preq>>

----------------------------------------------------------------------------
(* POST /chats/start *)

ChatSessionCreates == [user_id : UserIds, topic : {NULL}, log_content : {"hi"}]

StartChatResult(us, id, t, chat) ==
    LET db_session == [id |-> id, user_id |-> chat.user_id, topic |-> chat.topic,
                       session_start |-> t, session_end |-> NULL,
                       log_content |-> chat.log_content, ai_summary |-> NULL]
    IN IF ChatFKViolation(us, db_session)
       THEN [ok |-> FALSE, row |-> db_session,
             resp |-> UnhandledError("start_chat_session", chat)]
       ELSE [ok |-> TRUE, row |-> db_session,
             resp |-> Response("start_chat_session", chat, 200,
                        [message |-> "Chat session started and logged successfully.",
                         session_id |-> db_session.id])]

start_chat_session(chat) ==
    /\ LET r == StartChatResult(users, seq.chats + 1, now, chat)
       IN /\ resp' = r.resp
          /\ IF r.ok
             THEN /\ chat_sessions' = chat_sessions \cup {r.row}
                  /\ seq' = [seq EXCEPT !.chats = @ + 1]
             ELSE UNCHANGED <<chat_sessions, seq>>
    /\ UNCHANGED <<users, posts, comments, mood_entries, resources,
                   now, pc, preq>>

----------------------------------------------------------------------------
(* GET /resources/ and GET / *)

ResourceResponse(r) ==
    [id |-> r.id, name |-> r.name, resource_type |-> r.resource_type,
     contact_info |-> r.contact_info, website_url |-> r.website_url,
     description |-> r.description]

(* Everything not flagged false *)
NotUnverifiedResources(rs) == { r \in rs : r.is_verified # "FALSE" }

(* filter(is_verified == True): a NULL flag does not pass *)
VerifiedResources(rs) == { r \in rs : r.is_verified = "TRUE" }

ListResourcesBodies(rs) ==
    { [items |-> [i \in DOMAIN o |-> ResourceResponse(o[i])]] :
        o \in Perms(VerifiedResources(rs)) }

list_resources ==
    /\ \E body \in ListResourcesBodies(resources) :
          resp' = Response("list_resources", [none |-> TRUE], 200, body)
    /\ UNCHANGED <<store, seq, now, pc, preq>>

read_root ==
    /\ resp' = Response("read_root", [none |-> TRUE], 200,
          [message |-> "Welcome to the SIH Mental Health API - Status: Operational"])
    /\ UNCHANGED <<store, seq, now, pc, preq>>

----------------------------------------------------------------------------
(* Operations on the store that no route exposes *)

(* A row of the resources table, written by whoever curates the directory;
   is_verified has a client-side default only, so it may also be NULL. *)
InsertResource(flag) ==
    /\ resources' = resources \cup
          {[id |-> seq.resources + 1, name |-> "n", resource_type |-> "Hotline",
            contact_info |-> NULL, website_url |-> NULL, description |-> NULL,
            is_verified |-> flag]}
    /\ seq' = [seq EXCEPT !.resources = @ + 1]
    /\ UNCHANGED <<users, posts, comments, mood_entries, chat_sessions,
                   now, pc, preq, resp>>

(* DELETE FROM users WHERE id = uid, with the cascades of the foreign keys *)
DeleteUser(uid) ==
    /\ RowExists(users, uid)
    /\ users' = { u \in users : u.id # uid }
    /\ posts' = PostsAfterDelete(posts, uid)
    /\ comments' = CommentsAfterDelete(comments, posts, uid)
    /\ mood_entries' = MoodsAfterDelete(mood_entries, uid)
    /\ chat_sessions' = ChatsAfterDelete(chat_sessions, uid)
    /\ UNCHANGED <<resources, seq, now, pc, preq, resp>>

----------------------------------------------------------------------------
(* Specifications.  A table holds a bounded number of rows: an insert needs
   room, a request that inserts nothing does not. *)

Room(count, cap, inserts) == count < cap \/ ~inserts

Register(guard) ==
    \/ \E p \in Workers, user \in UserCreates(ShortPasswords) :
          guard /\ CreateUserCheck(p, user)
    \/ \E p \in Workers, salt \in OneSalt : CreateUserCommit(p, salt)

TotalRows ==
    seq.users + InFlight + seq.posts + seq.comments + seq.moods + seq.chats
       + seq.resources

(* The whole API.  Registrations are handled one at a time here; the rows of
   all tables, and the registrations in flight, share one budget. *)
Next ==
    \/ Register(Serial /\ TotalRows < MaxRows)
    \/ \E post \in PostCreates :
          /\ Room(TotalRows, MaxRows,
                  CreatePostResult(users, seq.posts + 1, now, post).ok)
          /\ create_post(post)
    \/ list_posts
    \/ \E comment \in CommentCreates :
          /\ Room(TotalRows, MaxRows,
                  CreateCommentResult(users, posts, seq.comments + 1, now, comment).ok)
          /\ create_comment(comment)
    \/ \E mood \in MoodEntryCreates :
          /\ Room(TotalRows, MaxRows,
                  LogMoodResult(users, seq.moods + 1, now, mood).ok)
          /\ log_mood(mood)
    \/ \E user_id \in UserIds : get_mood_history(user_id)
    \/ \E chat \in ChatSessionCreates :
          /\ Room(TotalRows, MaxRows,
                  StartChatResult(users, seq.chats + 1, now, chat).ok)
          /\ start_chat_session(chat)
    \/ list_resources
    \/ read_root
    \/ \E flag \in {"TRUE", "FALSE", NULL} :
          TotalRows < MaxRows /\ InsertResource(flag)
    \/ \E uid \in UserIds : DeleteUser(uid)

Spec == Init /\ [][Next]_vars

(* The forum over a ticking clock *)
ForumNext ==
    \/ Tick
    \/ Register(Serial)
    \/ \E post \in PostCreates :
          /\ Room(seq.posts, MaxPosts,
                  CreatePostResult(users, seq.posts + 1, now, post).ok)
          /\ create_post(post)
    \/ \E comment \in CommentCreates :
          /\ Room(seq.comments, MaxComments,
                  CreateCommentResult(users, posts, seq.comments + 1, now, comment).ok)
          /\ create_comment(comment)
    \/ list_posts
    \/ \E uid \in UserIds : DeleteUser(uid)

SpecForum == Init /\ [][ForumNext]_vars

(* Every table that hangs off users, and the deletion of users *)
CascadeNext ==
    \/ Register(Serial)
    \/ \E post \in PostCreates : seq.posts < MaxPosts /\ create_post(post)
    \/ \E comment \in CommentCreates :
          seq.comments < MaxComments /\ create_comment(comment)
    \/ \E mood \in MoodEntryCreates : seq.moods < MaxMoods /\ log_mood(mood)
    \/ \E chat \in ChatSessionCreates :
          seq.chats < MaxChats /\ start_chat_session(chat)
    \/ \E uid \in UserIds : DeleteUser(uid)

SpecCascade == Init /\ [][CascadeNext]_vars

(* The mood tracker and the chat log *)
TrackerNext ==
    \/ Register(Serial)
    \/ \E mood \in MoodEntryCreates :
          /\ Room(seq.moods, MaxMoods,
                  LogMoodResult(users, seq.moods + 1, now, mood).ok)
          /\ log_mood(mood)
    \/ \E user_id \in UserIds : get_mood_history(user_id)
    \/ \E chat \in ChatSessionCreates :
          /\ Room(seq.chats, MaxChats,
                  StartChatResult(users, seq.chats + 1, now, chat).ok)
          /\ start_chat_session(chat)
    \/ \E uid \in UserIds : DeleteUser(uid)

SpecTracker == Init /\ [][TrackerNext]_vars

(* The resource directory *)
ResourcesNext ==
    \/ \E flag \in {"TRUE", "FALSE", NULL} :
          seq.resources < MaxResources /\ InsertResource(flag)
    \/ list_resources
    \/ read_root

SpecResources == Init /\ [][ResourcesNext]_vars

(* Registration with requests in flight together, long passwords, two salts *)
UsersNext ==
    \/ \E p \in Workers, user \in UserCreates(LongPasswords) :
          CreateUserCheck(p, user)
    \/ \E p \in Workers, salt \in TwoSalts : CreateUserCommit(p, salt)

SpecUsers == Init /\ [][UsersNext]_vars

(* Registration with the requests handled one after another *)
SeqNext ==
    \/ \E p \in Workers, user \in UserCreates(ShortPasswords) :
          Serial /\ CreateUserCheck(p, user)
    \/ \E p \in Workers, salt \in TwoSalts : CreateUserCommit(p, salt)
    \/ \E uid \in UserIds : Serial /\ DeleteUser(uid)

SpecSeq == Init /\ [][SeqNext]_vars

----------------------------------------------------------------------------
(* Properties *)

(* The step answers a request to endpoint ep. *)
Handled(ep) == resp' # resp /\ resp'.ep = ep

StoreUnchanged == UNCHANGED <<store, seq>>

UniqueUsers ==
    \A u, v \in users :
       (u.username = v.username \/ u.email = v.email) => u = v

(* C1: with registrations handled one after another, a request whose email
   or username is already stored is answered 400 and inserts nothing, a
   request with an unused username and email is answered 201 and inserts
   exactly its row, and no two stored users share a username or an email. *)
C1_Step ==
    Handled("create_user") =>
       LET user == resp'.req
       IN IF \E u \in users :
                u.email = user.email \/ u.username = user.username
          THEN resp'.status = 400 /\ StoreUnchanged
          ELSE /\ resp'.status = 201
               /\ \E u \in users' \ users :
                     /\ users' = users \cup {u}
                     /\ u.username = user.username
                     /\ u.email = user.email
                     /\ resp'.body.id = u.id

C1_SequentialRegistration == [](UniqueUsers) /\ [][C1_Step]_vars

C1_Witness ==
    /\ resp.ep = "create_user"
    /\ resp.status = 400
    /\ Cardinality(users) = 1
    /\ \E u \in users :
          u.email = resp.req.email /\ u.username # resp.req.username

(* C2: with registrations in flight together, every answer to a
   registration is 201 or the 400 of a duplicate, and no two stored users
   share a username or an email. *)
C2_ConcurrentConflictIs400 ==
    /\ UniqueUsers
    /\ resp.ep = "create_user" => resp.status \in {201, 400}

(* C3: a mood score outside 1..10 is answered 400 with the store untouched,
   a score inside 1..10 for an existing user is answered 201 and inserts
   exactly that entry, and every stored entry has a score in 1..10. *)
C3_Step ==
    Handled("log_mood") =>
       LET mood == resp'.req
       IN IF mood.mood_score < 1 \/ mood.mood_score > 10
          THEN resp'.status = 400 /\ StoreUnchanged
          ELSE (\E u \in users : u.id = mood.user_id) =>
                  /\ resp'.status = 201
                  /\ \E m \in mood_entries' \ mood_entries :
                        /\ mood_entries' = mood_entries \cup {m}
                        /\ m.mood_score = mood.mood_score
                        /\ m.user_id = mood.user_id

C3_MoodScoreRange ==
    /\ [](\A m \in mood_entries : m.mood_score \in 1..10)
    /\ [][C3_Step]_vars

C3_Witness ==
    /\ resp.ep = "log_mood"
    /\ resp.status = 400
    /\ resp.req.mood_score = 11
    /\ \E m \in mood_entries : m.mood_score = 10

(* C4: a comment naming a missing post or user, and a post naming a missing
   user, is refused with the store untouched, and every stored comment names
   a stored post and a stored user and every stored post a stored user. *)
NoOrphanForumRows ==
    /\ \A c \in comments :
          (\E r \in posts : r.id = c.post_id) /\ (\E u \in users : u.id = c.user_id)
    /\ \A r \in posts : \E u \in users : u.id = r.user_id

C4_Step ==
    /\ ( /\ Handled("create_comment")
         /\ \/ ~\E r \in posts : r.id = resp'.req.post_id
            \/ ~\E u \in users : u.id = resp'.req.user_id )
       => resp'.status >= 400 /\ StoreUnchanged
    /\ ( /\ Handled("create_post")
         /\ ~\E u \in users : u.id = resp'.req.user_id )
       => resp'.status >= 400 /\ StoreUnchanged

C4_NoOrphanCreated == [](NoOrphanForumRows) /\ [][C4_Step]_vars

C4_Witness ==
    /\ resp.ep = "create_comment"
    /\ resp.status >= 400
    /\ users # {}
    /\ posts # {}
    /\ \E u \in users : u.id = resp.req.user_id
    /\ ~\E r \in posts : r.id = resp.req.post_id
    /\ comments # {}

(* C5: a create request naming a missing parent user or post is answered
   with a 4xx status. *)
C5_Step ==
    \A ep \in {"create_post", "create_comment", "log_mood", "start_chat_session"} :
       ( /\ Handled(ep)
         /\ \/ ~\E u \in users : u.id = resp'.req.user_id
            \/ ep = "create_comment" /\ ~\E r \in posts : r.id = resp'.req.post_id )
       => resp'.status \in 400..499

C5_InvalidReferenceIsClientError == [][C5_Step]_vars

(* C6: deleting a user removes, in the same step, exactly that user, the
   user's posts, mood entries and chat sessions, the user's comments and the
   comments on the user's posts, and nothing else; no row of any table ever
   names a missing parent. *)
NoOrphans ==
    /\ NoOrphanForumRows
    /\ \A m \in mood_entries : \E u \in users : u.id = m.user_id
    /\ \A s \in chat_sessions : \E u \in users : u.id = s.user_id

C6_Step ==
    (users' # users /\ users' \subseteq users) =>
       \E d \in users :
          /\ users' = users \ {d}
          /\ posts' = { r \in posts : r.user_id # d.id }
          /\ comments' =
                { c \in comments :
                    /\ c.user_id # d.id
                    /\ ~\E r \in posts : r.id = c.post_id /\ r.user_id = d.id }
          /\ mood_entries' = { m \in mood_entries : m.user_id # d.id }
          /\ chat_sessions' = { s \in chat_sessions : s.user_id # d.id }

C6_DeleteCascades == [](NoOrphans) /\ [][C6_Step]_vars

C6_Witness ==
    /\ seq.users = 2 /\ Cardinality(users) = 1
    /\ seq.posts = 2 /\ Cardinality(posts) = 1
    /\ seq.comments = 2 /\ comments = {}
    /\ seq.moods = 1 /\ mood_entries = {}
    /\ seq.chats = 1 /\ chat_sessions = {}

(* C7: GET /posts/ returns every stored post exactly once, newest
   created_at first, each with exactly its comments, the comments in
   insertion order. *)
C7_Step ==
    Handled("list_posts") =>
       LET items == resp'.body.items
       IN /\ Len(items) = Cardinality(posts)
          /\ { items[i].id : i \in DOMAIN items } = { r.id : r \in posts }
          /\ \A i, j \in DOMAIN items :
                i < j => items[i].created_at >= items[j].created_at
          /\ \A i \in DOMAIN items :
                LET cs == items[i].comments
                IN /\ Len(cs) = Cardinality(CommentsOf(comments, items[i].id))
                   /\ { cs[k].id : k \in DOMAIN cs } =
                         { c.id : c \in CommentsOf(comments, items[i].id) }
                   /\ \A a, b \in DOMAIN cs : a < b => cs[a].id < cs[b].id

C7_ListPostsOrdered == [][C7_Step]_vars

(* C8: GET /resources/ returns exactly the resources whose is_verified is
   true, each once, and none whose flag is false or unset. *)
C8_Step ==
    Handled("list_resources") =>
       LET items == resp'.body.items
           verified == { r \in resources : r.is_verified = "TRUE" }
       IN /\ Len(items) = Cardinality(verified)
          /\ { items[i].id : i \in DOMAIN items } = { r.id : r \in verified }

C8_OnlyVerifiedListed == [][C8_Step]_vars

C8_Witness ==
    /\ resp.ep = "list_resources"
    /\ Len(resp.body.items) = 1
    /\ \E r \in resources : r.is_verified = "FALSE"
    /\ \E r \in resources : r.is_verified = "TRUE"

(* The row a successful registration stored, and the password it was sent *)
Registered ==
    { [row |-> u, password |-> resp.req.password] :
        u \in { v \in users : /\ resp.ep = "create_user"
                              /\ resp.status = 201
                              /\ v.id = resp.body.id } }

First72(s) == SubSeq(s, 1, Min(Len(s), BcryptMaxBytes))

(* C9 as stated: the stored hash is the hasher's output for the plaintext,
   differs from it, verifies it, and verifies no other string. *)
C9_VerifyRejectsEveryOther ==
    \A r \in Registered :
       /\ \E salt \in TwoSalts : r.row.password_hash = BcryptHash(r.password, salt)
       /\ r.row.password_hash # r.password
       /\ verify_password(r.password, r.row.password_hash)
       /\ \A other \in LongPasswords \ {r.password} :
             ~verify_password(other, r.row.password_hash)

(* C9: the stored hash is the hasher's output for the plaintext, differs
   from it, verifies it, and verifies no string that differs from the
   plaintext within its first 72 bytes. *)
C9_VerifyRejectsOtherPrefixes ==
    \A r \in Registered :
       /\ \E salt \in TwoSalts : r.row.password_hash = BcryptHash(r.password, salt)
       /\ r.row.password_hash # r.password
       /\ verify_password(r.password, r.row.password_hash)
       /\ \A other \in LongPasswords :
             First72(other) # First72(r.password) =>
                ~verify_password(other, r.row.password_hash)

C9_Witness ==
    \E r \in Registered :
       /\ Len(r.password) = BcryptMaxBytes
       /\ \E other \in LongPasswords :
             /\ Len(other) = BcryptMaxBytes
             /\ other # r.password
             /\ ~verify_password(other, r.row.password_hash)

(* C10: no response carries a password or password_hash field, a successful
   registration answers exactly id, username, email and created_at, and
   replacing the stored password hashes by others changes no response. *)
SecretFields == {"password", "password_hash"}

NoSecretIn(body) ==
    /\ DOMAIN body \cap SecretFields = {}
    /\ "items" \in DOMAIN body =>
          \A i \in DOMAIN body.items :
             /\ DOMAIN body.items[i] \cap SecretFields = {}
             /\ "comments" \in DOMAIN body.items[i] =>
                   \A k \in DOMAIN body.items[i].comments :
                      DOMAIN body.items[i].comments[k] \cap SecretFields = {}

OtherHashes == { BcryptHash(<<2>>, 8), <<1>> }

HashVariants(us) ==
    { { [u EXCEPT !.password_hash = h[u]] : u \in us } : h \in [us -> OtherHashes] }

SameResponses(alt) ==
    /\ \A user \in UserCreates(ShortPasswords) :
          /\ CreateUserCheckResult(alt, user).resp =
                CreateUserCheckResult(users, user).resp
          /\ \A salt \in OneSalt :
                CreateUserCommitResult(alt, seq.users + 1, user, salt, now).resp =
                   CreateUserCommitResult(users, seq.users + 1, user, salt, now).resp
    /\ \A post \in PostCreates :
          CreatePostResult(alt, seq.posts + 1, now, post).resp =
             CreatePostResult(users, seq.posts + 1, now, post).resp
    /\ \A comment \in CommentCreates :
          CreateCommentResult(alt, posts, seq.comments + 1, now, comment).resp =
             CreateCommentResult(users, posts, seq.comments + 1, now, comment).resp
    /\ \A mood \in MoodEntryCreates :
          LogMoodResult(alt, seq.moods + 1, now, mood).resp =
             LogMoodResult(users, seq.moods + 1, now, mood).resp
    /\ \A chat \in ChatSessionCreates :
          StartChatResult(alt, seq.chats + 1, now, chat).resp =
             StartChatResult(users, seq.chats + 1, now, chat).resp

C10_NoCredentialInResponses ==
    /\ NoSecretIn(resp.body)
    /\ (resp.ep = "create_user" /\ resp.status = 201) =>
          DOMAIN resp.body = {"id", "username", "email", "created_at"}
    /\ \A alt \in HashVariants(users) : SameResponses(alt)

C10_Witness ==
    /\ resp.ep = "create_user"
    /\ resp.status = 201
    /\ \E u \in users : u.id = resp.body.id /\ Len(u.password_hash) > 2

====
